---- MODULE Spec2Model ----
(***************************************************************************)
(* Model of the MCP calendar server (server.py) and of the booking flow of *)
(* its command line client (client.py).                                    *)
(*                                                                         *)
(* Time is counted in seconds from midnight of day 0.  A timestamp STRING  *)
(* is a record [fmt, t]: fmt "T" is "YYYY-MM-DDTHH:MM:SS", fmt "sp" is the *)
(* same text with a blank for the "T" (datetime.fromisoformat reads both), *)
(* fmt "bad" is a text fromisoformat rejects and fmt "none" is a missing   *)
(* or empty parameter.  A handler of the server runs without an await      *)
(* between reading the store and writing it, so each request is one        *)
(* action; the client's booking is two requests, hence two actions.        *)
(***************************************************************************)
EXTENDS Integers, Sequences, FiniteSets, TLC

VARIABLES
    EVENTS,     \* server.py EVENTS: the sequence of stored events
    resp,       \* the last request served and the response it got
    cpc,        \* client.py find_free_and_book: where each client flow is
    creq,       \* the day and duration each client flow asks for
    cslot,      \* the slot find_free_slot returned to each client flow
    cev         \* the event create_event returned to each client flow

vars == <<EVENTS, resp, cpc, creq, cslot, cev>>

----------------------------------------------------------------------------
(* Bounds of the model. *)

\* the store holds at most this many events (the two seeded ones included)
MaxEvents == 4

----------------------------------------------------------------------------
(* Time. *)

SecondsPerMinute == 60
Minute == SecondsPerMinute
Hour == 60 * Minute
DayLen == 24 * Hour

WorkStartHour == 9
WorkEndHour == 17

\* the seeded day "2025-10-22" is day 1; day 0 is the day before it
SeedDay == 1

At(day, h, m) == day * DayLen + h * Hour + m * Minute

DateOf(t) == t \div DayLen
TimeOfDay(t) == t % DayLen

Max(a, b) == IF a >= b THEN a ELSE b

----------------------------------------------------------------------------
(* Timestamp strings. *)

TStr(t) == [fmt |-> "T", t |-> t]
SpStr(t) == [fmt |-> "sp", t |-> t]
BadStr == [fmt |-> "bad", t |-> 0]
NoStr == [fmt |-> "none", t |-> 0]

\* datetime.fromisoformat(s) raises ValueError unless s is an ISO text
Parses(s) == s.fmt \in {"T", "sp"}

\* parse_iso(s), for a text that parses
parse_iso(s) == s.t

\* iso(dt): always written with the "T" separator
iso(t) == TStr(t)

\* Python truthiness of a string parameter: None and "" are false
Truthy(s) == s.fmt # "none"

\* the code point of the separator: " " is 0x20, "T" is 0x54
SepRank(s) == IF s.fmt = "sp" THEN 32 ELSE 84

\* a < b as Python compares the two texts (character by character): the
\* date, then the separator, then the time of day
StrLess(a, b) ==
    \/ DateOf(a.t) < DateOf(b.t)
    \/ /\ DateOf(a.t) = DateOf(b.t)
       /\ \/ SepRank(a) < SepRank(b)
          \/ SepRank(a) = SepRank(b) /\ TimeOfDay(a.t) < TimeOfDay(b.t)

----------------------------------------------------------------------------
(* Events and the seeded store. *)

Event(id, title, start, end, attendees, by) ==
    [id |-> id, title |-> title, start |-> start, end |-> end,
     attendees |-> attendees, created_by |-> by]

SeedEvents ==
    << Event("e1", "Weekly team sync",
             TStr(At(SeedDay, 10, 0)), TStr(At(SeedDay, 10, 30)),
             <<"alice@example.com">>, "system"),
       Event("e2", "Project planning",
             TStr(At(SeedDay, 15, 0)), TStr(At(SeedDay, 16, 0)),
             <<"bob@example.com">>, "system") >>

NoEvent == Event("", "", NoStr, NoStr, <<>>, "")

\* str(uuid.uuid4())[:8]: eight hexadecimal digits drawn at random; the
\* pool stands for the 16^8 texts, none of which is "e1" or "e2"
IdPool == {"id_a", "id_b"}

----------------------------------------------------------------------------
(* Days as request parameters. *)

DayStr(d) == [fmt |-> "date", d |-> d]
NoDay == [fmt |-> "none", d |-> 0]
BadDay == [fmt |-> "bad", d |-> 0]

\* datetime.fromisoformat(day) raises ValueError unless day is a date text
DayParses(day) == day.fmt = "date"

----------------------------------------------------------------------------
(* The slot search of find_free_slot and of book_and_confirm. *)

NullSlot == [kind |-> "null", start |-> NoStr, end |-> NoStr]
RaisedSlot == [kind |-> "raise", start |-> NoStr, end |-> NoStr]

\* {"start": iso(cursor), "end": iso(cursor + timedelta(minutes=duration))}
SlotAt(cursor, duration) ==
    [kind |-> "slot", start |-> iso(cursor),
     end |-> iso(cursor + duration * Minute)]

\* s with e put after every element whose key is not greater than e's
RECURSIVE InsertByStart(_, _)
InsertByStart(e, s) ==
    IF s = <<>> THEN <<e>>
    ELSE IF StrLess(e.start, Head(s).start) THEN <<e>> \o s
    ELSE <<Head(s)>> \o InsertByStart(e, Tail(s))

\* the events left in the order of the store
sorted_AsStored(s) == s

\* sorted(s, key=lambda x: x["start"]): by the start TEXT, and stable
RECURSIVE sorted(_)
sorted(s) ==
    IF s = <<>> THEN <<>>
    ELSE InsertByStart(s[Len(s)], sorted(SubSeq(s, 1, Len(s) - 1)))

\* the day's events taken to be those that start or end on the day
OnDate_StartOrEnd(store, day) ==
    SelectSeq(store, LAMBDA e : \/ DateOf(parse_iso(e.start)) = day
                                \/ DateOf(parse_iso(e.end)) = day)

\* [e for e in EVENTS if parse_iso(e["start"]).date() == work_start.date()]
OnDate(store, day) ==
    SelectSeq(store, LAMBDA e : DateOf(parse_iso(e.start)) = day)

\* the for loop over evs, from its i-th element on with the cursor given:
\* the cursor at the break, the cursor after the last event, or the
\* ValueError of parse_iso(e["end"])
RECURSIVE Scan(_, _, _, _)
Scan(evs, i, cursor, duration) ==
    IF i > Len(evs) THEN [kind |-> "end", cursor |-> cursor]
    ELSE IF parse_iso(evs[i].start) - cursor >= duration * SecondsPerMinute
    THEN [kind |-> "break", cursor |-> cursor]
    ELSE IF ~Parses(evs[i].end) THEN [kind |-> "raise", cursor |-> cursor]
    ELSE Scan(evs, i + 1, Max(cursor, parse_iso(evs[i].end)), duration)

\* find_free_slot with the ">" of the last comparison for its ">="
FindSlot_StrictFit(store, day, duration) ==
    LET work_start == At(day, WorkStartHour, 0)
        work_end == At(day, WorkEndHour, 0)
    IN  IF \E i \in 1..Len(store) : ~Parses(store[i].start) THEN RaisedSlot
        ELSE LET evs == sorted(OnDate(store, day))
                 r == Scan(evs, 1, work_start, duration)
             IN  IF r.kind = "raise" THEN RaisedSlot
                 ELSE IF r.kind = "break" THEN SlotAt(r.cursor, duration)
                 ELSE IF work_end - r.cursor > duration * SecondsPerMinute
                 THEN SlotAt(r.cursor, duration)
                 ELSE NullSlot

\* find_free_slot's slot search for a day that parses: a slot, null, or
\* an exception
FindSlot(store, day, duration) ==
    LET work_start == At(day, WorkStartHour, 0)
        work_end == At(day, WorkEndHour, 0)
    IN  IF \E i \in 1..Len(store) : ~Parses(store[i].start) THEN RaisedSlot
        ELSE LET evs == sorted(OnDate(store, day))
                 r == Scan(evs, 1, work_start, duration)
             IN  IF r.kind = "raise" THEN RaisedSlot
                 ELSE IF r.kind = "break" THEN SlotAt(r.cursor, duration)
                 ELSE IF work_end - r.cursor >= duration * SecondsPerMinute
                 THEN SlotAt(r.cursor, duration)
                 ELSE NullSlot

\* a copy of the slot search that gives up a slot ending after work_end
BookFindSlot_WithinWindow(store, day, duration) ==
    LET slot == FindSlot(store, day, duration)
    IN  IF slot.kind = "slot" /\ slot.end.t > At(day, WorkEndHour, 0)
        THEN NullSlot
        ELSE slot

\* book_and_confirm's copy of the slot search
BookFindSlot(store, day, duration) ==
    LET work_start == At(day, WorkStartHour, 0)
        work_end == At(day, WorkEndHour, 0)
    IN  IF \E i \in 1..Len(store) : ~Parses(store[i].start) THEN RaisedSlot
        ELSE LET evs == sorted(OnDate(store, day))
                 r == Scan(evs, 1, work_start, duration)
             IN  IF r.kind = "raise" THEN RaisedSlot
                 ELSE IF r.kind = "break" THEN SlotAt(r.cursor, duration)
                 ELSE IF work_end - r.cursor >= duration * SecondsPerMinute
                 THEN SlotAt(r.cursor, duration)
                 ELSE NullSlot

----------------------------------------------------------------------------
(* Requests and responses.  A response records the request it answers:     *)
(* op and the parameters, then kind "result" or "error", the JSON-RPC      *)
(* error code or the HTTP status, and the payload.  trace lists, in the    *)
(* order of the code, what the step did besides reading the store:         *)
(* "append" for EVENTS.append, "generate" for a call of llm.generate.      *)

Response(op, kind, code) ==
    [op |-> op, kind |-> kind, code |-> code,
     day |-> NoDay, dur |-> 0, title |-> "", start |-> NoStr, end |-> NoStr,
     slot |-> NullSlot, events |-> <<>>, event |-> NoEvent,
     confirmation |-> "", trace |-> <<>>]

\* the handlers' answers: [resp, store], the response and the store after
Answer(r, store) == [resp |-> r, store |-> store]

\* method "list_events"
list_events(store) ==
    Answer([Response("list_events", "result", 0) EXCEPT !.events = store],
           store)

\* the day filter with the next midnight let in
Matches_UpToNextMidnight(store, start_day) ==
    SelectSeq(store, LAMBDA e : /\ parse_iso(e.start) >= start_day
                                /\ parse_iso(e.start) <= start_day + DayLen)

\* [e for e in EVENTS if start_day <= parse_iso(e["start"]) < end_day]
Matches(store, start_day) ==
    SelectSeq(store, LAMBDA e : /\ parse_iso(e.start) >= start_day
                                /\ parse_iso(e.start) < start_day + DayLen)

\* method "get_events_for_day"
get_events_for_day(store, day) ==
    LET q == [Response("get_events_for_day", "error", 0) EXCEPT !.day = day]
    IN  IF ~Truthy(day) THEN Answer([q EXCEPT !.code = -32602], store)
        ELSE IF \/ ~DayParses(day)
                \/ \E i \in 1..Len(store) : ~Parses(store[i].start)
        THEN Answer([q EXCEPT !.code = -32000], store)
        ELSE Answer([q EXCEPT !.kind = "result",
                              !.events = Matches(store, At(day.d, 0, 0))],
                    store)

\* method "find_free_slot"
find_free_slot(store, day, duration) ==
    LET q == [Response("find_free_slot", "error", 0)
                  EXCEPT !.day = day, !.dur = duration]
    IN  IF ~Truthy(day) THEN Answer([q EXCEPT !.code = -32602], store)
        ELSE IF ~DayParses(day) THEN Answer([q EXCEPT !.code = -32000], store)
        ELSE LET slot == FindSlot(store, day.d, duration)
             IN  IF slot.kind = "raise"
                 THEN Answer([q EXCEPT !.code = -32000], store)
                 ELSE Answer([q EXCEPT !.kind = "result", !.slot = slot],
                             store)

\* method "create_event", the new id being the one uuid4 drew
create_event(store, title, start, end, attendees, newid) ==
    LET q == [Response("create_event", "error", 0)
                  EXCEPT !.title = title, !.start = start, !.end = end]
    IN  IF ~(title # "" /\ Truthy(start) /\ Truthy(end))
        THEN Answer([q EXCEPT !.code = -32602], store)
        ELSE LET new_e == Event(newid, title, start, end, attendees, "client")
             IN  Answer([q EXCEPT !.kind = "result", !.event = new_e,
                                  !.trace = <<"append">>],
                        Append(store, new_e))

\* llm.generate(prompt) returns a text (the model's reply, or the mock
\* message when no key is set or the HTTP request fails), or raises what is
\* no RequestException (a reply that is no object, or whose content is null)
LlmOutcomes == {"text", "raise"}

\* book_and_confirm with the confirmation asked for as soon as the slot is
\* computed, before the 404 and before the append
book_and_confirm_GenerateFirst(store, day, duration, title, attendees, newid, llm) ==
    LET q == [Response("book_and_confirm", "error", 0)
                  EXCEPT !.day = day, !.dur = duration, !.title = title]
    IN  IF ~DayParses(day) THEN Answer([q EXCEPT !.code = 500], store)
        ELSE LET slot == BookFindSlot(store, day.d, duration)
             IN  IF slot.kind = "raise"
                 THEN Answer([q EXCEPT !.code = 500], store)
                 ELSE IF llm = "raise"
                 THEN Answer([q EXCEPT !.code = 500,
                                       !.trace = <<"generate">>], store)
                 ELSE IF slot.kind = "null"
                 THEN Answer([q EXCEPT !.code = 404,
                                       !.trace = <<"generate">>], store)
                 ELSE LET new_e == Event(newid, title, slot.start, slot.end,
                                         attendees, "ui")
                      IN  Answer([q EXCEPT !.kind = "result",
                                           !.code = 200,
                                           !.slot = slot,
                                           !.event = new_e,
                                           !.confirmation = llm,
                                           !.trace = <<"generate", "append">>],
                                 Append(store, new_e))

\* POST /api/book_and_confirm: 500 when the handler raises (an empty day
\* text included), 404 when no slot is found
book_and_confirm(store, day, duration, title, attendees, newid, llm) ==
    LET q == [Response("book_and_confirm", "error", 0)
                  EXCEPT !.day = day, !.dur = duration, !.title = title]
    IN  IF ~DayParses(day) THEN Answer([q EXCEPT !.code = 500], store)
        ELSE LET slot == BookFindSlot(store, day.d, duration)
             IN  IF slot.kind = "raise"
                 THEN Answer([q EXCEPT !.code = 500], store)
                 ELSE IF slot.kind = "null"
                 THEN Answer([q EXCEPT !.code = 404], store)
                 ELSE LET new_e == Event(newid, title, slot.start, slot.end,
                                         attendees, "ui")
                      IN  IF llm = "raise"
                          THEN Answer([q EXCEPT !.code = 500,
                                                !.trace = <<"append",
                                                            "generate">>],
                                      Append(store, new_e))
                          ELSE Answer([q EXCEPT !.kind = "result",
                                                !.code = 200,
                                                !.slot = slot,
                                                !.event = new_e,
                                                !.confirmation = llm,
                                                !.trace = <<"append",
                                                            "generate">>],
                                      Append(store, new_e))

----------------------------------------------------------------------------
(* What the requests may carry. *)

Clients == {"c1", "c2"}

QueryDays == {SeedDay, SeedDay + 1}
DayInputs == {DayStr(d) : d \in QueryDays} \cup {NoDay, BadDay}

\* "day" of book_and_confirm: a text (the request model requires one)
BookDays == {DayStr(d) : d \in QueryDays} \cup {BadDay}

\* duration_minutes: any integer
Durations == {-60, 0, 60, 120, 540}

\* the durations the client's pattern (\d+)\s*min yields, 60 by default
ClientDurations == {60, 480}

\* "start" of create_event: an event before the working window and one
\* written with a blank on the seeded day, one at midnight and one after
\* the working window on the day after
CreateStarts ==
    { TStr(At(SeedDay, 8, 0)), SpStr(At(SeedDay, 12, 0)),
      TStr(At(SeedDay + 1, 0, 0)), TStr(At(SeedDay + 1, 18, 0)) }

\* "end" of create_event: an hour after the start, or the start itself
CreateEnds(start) == { TStr(start.t + 60 * Minute), TStr(start.t) }

\* the parameters of create_event: any texts (timestamps or not), or none
CreateRequests ==
    UNION { { [title |-> "Meeting", start |-> st, end |-> en] :
                en \in CreateEnds(st) } : st \in CreateStarts }
    \cup { [title |-> "Meeting", start |-> BadStr,
            end |-> TStr(At(SeedDay, 12, 0))],
           [title |-> "Meeting", start |-> TStr(At(SeedDay, 8, 0)),
            end |-> BadStr],
           [title |-> "", start |-> TStr(At(SeedDay, 8, 0)),
            end |-> TStr(At(SeedDay, 9, 0))],
           [title |-> "Meeting", start |-> NoStr,
            end |-> TStr(At(SeedDay, 9, 0))],
           [title |-> "Meeting", start |-> TStr(At(SeedDay, 8, 0)),
            end |-> NoStr] }

\* durations at the edge of the working window (eight hours), and one
\* below zero
SearchDurations == {-480, 60, 480, 481}

\* the durations booked on those stores: the whole working window, and
\* one below zero
SearchBookDurations == {-480, 480}

\* events that cross a midnight or share a start: one from 23:00 of the
\* seeded day to 10:00 of the day after, one that takes the whole seeded
\* day, and two that start at 09:00 of the day after and end at 10:00 and
\* at 12:00
SearchCreates ==
    { [title |-> "Meeting", start |-> TStr(At(SeedDay, 23, 0)),
       end |-> TStr(At(SeedDay + 1, 10, 0))],
      [title |-> "Meeting", start |-> TStr(At(SeedDay, 0, 0)),
       end |-> TStr(At(SeedDay + 1, 0, 0))],
      [title |-> "Meeting", start |-> TStr(At(SeedDay + 1, 9, 0)),
       end |-> TStr(At(SeedDay + 1, 10, 0))],
      [title |-> "Meeting", start |-> TStr(At(SeedDay + 1, 9, 0)),
       end |-> TStr(At(SeedDay + 1, 12, 0))] }

----------------------------------------------------------------------------
(* The free room of a day, for the statements about the slot search. *)

\* two intervals [s1, e1) and [s2, e2) share an instant
Overlaps(s1, e1, s2, e2) == s1 < e2 /\ s2 < e1

\* the events whose start falls on `day` (both timestamps readable)
EventsOfDay(store, day) ==
    { store[i] : i \in { j \in 1..Len(store) :
                           /\ Parses(store[j].start) /\ Parses(store[j].end)
                           /\ DateOf(store[j].start.t) = day } }

\* every timestamp of the model is a multiple of half an hour
Grid == 30 * Minute
GridPoints(day) ==
    { At(day, WorkStartHour, 0) + k * Grid :
        k \in 0..((WorkEndHour - WorkStartHour) * 2) }

\* [x, x + d minutes) lies in the working window and overlaps no event of
\* the day
ValidStart(store, day, d, x) ==
    /\ At(day, WorkStartHour, 0) <= x
    /\ x + d * Minute <= At(day, WorkEndHour, 0)
    /\ \A e \in EventsOfDay(store, day) :
          ~Overlaps(x, x + d * Minute, e.start.t, e.end.t)

ValidStarts(store, day, d) ==
    { x \in GridPoints(day) : ValidStart(store, day, d, x) }

SetMin(S) == CHOOSE x \in S : \A y \in S : x <= y

\* the number of pairwise disjoint slots of d > 0 minutes the day has room
\* for from `from` on (earliest first packs the most)
RECURSIVE Room(_, _, _, _)
Room(store, day, d, from) ==
    LET V == { x \in ValidStarts(store, day, d) : x >= from }
    IN  IF V = {} THEN 0
        ELSE 1 + Room(store, day, d, SetMin(V) + d * Minute)

Capacity(store, day, d) == Room(store, day, d, At(day, WorkStartHour, 0))

----------------------------------------------------------------------------
(* The state machine. *)

Init ==
    /\ EVENTS = SeedEvents
    /\ resp = Response("none", "result", 0)
    /\ cpc = [c \in Clients |-> "start"]
    /\ creq = [c \in Clients |-> [day |-> NoDay, dur |-> 0]]
    /\ cslot = [c \in Clients |-> NullSlot]
    /\ cev = [c \in Clients |-> NoEvent]

clientVars == <<cpc, creq, cslot, cev>>

\* a JSON-RPC request "list_events"
ListEvents ==
    /\ resp' = list_events(EVENTS).resp
    /\ UNCHANGED <<EVENTS, clientVars>>

\* a JSON-RPC request "get_events_for_day"
GetEventsForDay(day) ==
    /\ resp' = get_events_for_day(EVENTS, day).resp
    /\ UNCHANGED <<EVENTS, clientVars>>

\* a JSON-RPC request "find_free_slot"
FindFreeSlot(day, duration) ==
    /\ resp' = find_free_slot(EVENTS, day, duration).resp
    /\ UNCHANGED <<EVENTS, clientVars>>

\* a JSON-RPC request "create_event"
CreateEvent(title, start, end, newid) ==
    LET a == create_event(EVENTS, title, start, end, <<>>, newid)
    IN  /\ Len(a.store) <= MaxEvents
        /\ EVENTS' = a.store
        /\ resp' = a.resp
        /\ UNCHANGED clientVars

\* a request POST /api/book_and_confirm
BookAndConfirm(day, duration, title, newid, llm) ==
    LET a == book_and_confirm(EVENTS, day, duration, title, <<>>, newid, llm)
    IN  /\ Len(a.store) <= MaxEvents
        /\ EVENTS' = a.store
        /\ resp' = a.resp
        /\ UNCHANGED clientVars

\* client.py find_free_and_book, up to the answer to find_free_slot
ClientFind(c, day, duration) ==
    LET a == find_free_slot(EVENTS, day, duration)
    IN  /\ cpc[c] = "start"
        /\ resp' = a.resp
        /\ creq' = [creq EXCEPT ![c] = [day |-> day, dur |-> duration]]
        /\ IF a.resp.kind = "error" \/ a.resp.slot.kind = "null"
           THEN cpc' = [cpc EXCEPT ![c] = "done"] /\ UNCHANGED cslot
           ELSE /\ cpc' = [cpc EXCEPT ![c] = "found"]
                /\ cslot' = [cslot EXCEPT ![c] = a.resp.slot]
        /\ UNCHANGED <<EVENTS, cev>>

\* client.py find_free_and_book, from create_event to the end: generate
\* is called unless create_event answered with an error
ClientCreate(c, newid) ==
    LET a == create_event(EVENTS, "Quick MCP Booking", cslot[c].start,
                          cslot[c].end, <<>>, newid)
    IN  /\ cpc[c] = "found"
        /\ Len(a.store) <= MaxEvents
        /\ EVENTS' = a.store
        /\ resp' = IF a.resp.kind = "error" THEN a.resp
                   ELSE [a.resp EXCEPT !.trace = @ \o <<"generate">>]
        /\ cpc' = [cpc EXCEPT ![c] = "done"]
        /\ cev' = [cev EXCEPT ![c] = a.resp.event]
        /\ UNCHANGED <<creq, cslot>>

\* the requests of any JSON-RPC or HTTP caller
Next ==
    \/ ListEvents
    \/ \E day \in DayInputs : GetEventsForDay(day)
    \/ \E day \in DayInputs, d \in Durations : FindFreeSlot(day, d)
    \/ \E q \in CreateRequests, newid \in IdPool :
          CreateEvent(q.title, q.start, q.end, newid)
    \/ \E day \in BookDays, d \in Durations, newid \in IdPool,
          llm \in LlmOutcomes :
          BookAndConfirm(day, d, "Booked via UI", newid, llm)

Spec == Init /\ [][Next]_vars

\* the requests to the event store alone: list, query by day, insert
NextStore ==
    \/ ListEvents
    \/ \E day \in DayInputs : GetEventsForDay(day)
    \/ \E q \in CreateRequests, newid \in IdPool :
          CreateEvent(q.title, q.start, q.end, newid)

SpecStore == Init /\ [][NextStore]_vars

\* two runs of the client and the web page's bookings, all for the seeded
\* day or the day after
NextBooking ==
    \/ \E c \in Clients, day \in QueryDays, d \in ClientDurations :
          ClientFind(c, DayStr(day), d)
    \/ \E c \in Clients, newid \in IdPool : ClientCreate(c, newid)
    \/ \E day \in QueryDays, d \in ClientDurations, newid \in IdPool,
          llm \in LlmOutcomes :
          BookAndConfirm(DayStr(day), d, "Booked via UI", newid, llm)

SpecBooking == Init /\ [][NextBooking]_vars

\* the slot search on stores with events across midnight and events with
\* equal starts: queries, inserts and bookings
NextSearch ==
    \/ \E day \in QueryDays : GetEventsForDay(DayStr(day))
    \/ \E day \in QueryDays, d \in SearchDurations :
          FindFreeSlot(DayStr(day), d)
    \/ \E q \in SearchCreates, newid \in IdPool :
          CreateEvent(q.title, q.start, q.end, newid)
    \/ \E day \in QueryDays, d \in SearchBookDurations, newid \in IdPool,
          llm \in LlmOutcomes :
          BookAndConfirm(DayStr(day), d, "Booked via UI", newid, llm)

SpecSearch == Init /\ [][NextSearch]_vars

----------------------------------------------------------------------------
(* The statements checked.  A statement about what a request returns is    *)
(* read of the requests the server answers; the requests it fails on       *)
(* because of a stored text that is no timestamp are C9's subject.         *)

\* the store the last request was served on
Served ==
    IF resp.op \in {"create_event", "book_and_confirm"} /\ resp.kind = "result"
    THEN SubSeq(EVENTS, 1, Len(EVENTS) - 1)
    ELSE EVENTS

WorkStart(day) == At(day, WorkStartHour, 0)
WorkEnd(day) == At(day, WorkEndHour, 0)

\* C3: the slot find_free_slot returns, and the slot book_and_confirm
\* books, for a duration d > 0 lies within [09:00, 17:00] of the day and
\* overlaps no stored event that starts on that day.
C3_SlotFreeInWindow ==
    ( /\ resp.op \in {"find_free_slot", "book_and_confirm"}
      /\ resp.kind = "result" /\ resp.slot.kind = "slot" /\ resp.dur > 0 )
    => LET s == resp.slot.start.t
           e == resp.slot.end.t
       IN  /\ WorkStart(resp.day.d) <= s
           /\ e <= WorkEnd(resp.day.d)
           /\ \A ev \in EventsOfDay(Served, resp.day.d) :
                 ~Overlaps(s, e, ev.start.t, ev.end.t)

\* C4: for d > 0, when some interval of d minutes lies in the working
\* window and overlaps no event of the day, find_free_slot returns a slot
\* of exactly d minutes whose start is the least such start; it returns
\* null only when there is none; on the seeded store, 60 minutes on the
\* seeded day give 09:00-10:00.
C4_EarliestFit ==
    ( /\ resp.op = "find_free_slot" /\ resp.kind = "result" /\ resp.dur > 0 )
    => LET V == ValidStarts(EVENTS, resp.day.d, resp.dur)
       IN  /\ V # {} =>
                /\ resp.slot.kind = "slot"
                /\ resp.slot.end.t - resp.slot.start.t = resp.dur * Minute
                /\ resp.slot.start.t = SetMin(V)
           /\ resp.slot.kind = "null" => V = {}
           /\ ( EVENTS = SeedEvents /\ resp.day.d = SeedDay /\ resp.dur = 60 )
                => resp.slot = [kind |-> "slot",
                                start |-> TStr(At(SeedDay, 9, 0)),
                                end |-> TStr(At(SeedDay, 10, 0))]

\* C5: find_free_slot and book_and_confirm answer a duration <= 0 with an
\* error, never with a slot, and book_and_confirm then leaves the store as
\* it was.
C5_NonPositiveDurationRejected ==
    [][ ( /\ resp'.op \in {"find_free_slot", "book_and_confirm"}
          /\ resp'.dur <= 0 )
        => ( /\ resp'.kind = "error"
             /\ resp'.slot.kind # "slot"
             /\ EVENTS' = EVENTS ) ]_vars

\* C6: create_event answers a request whose end is not after its start
\* with an error and appends nothing.
C6_InsertValidatesEndAfterStart ==
    [][ ( /\ resp'.op = "create_event"
          /\ Parses(resp'.start) /\ Parses(resp'.end)
          /\ ~(parse_iso(resp'.end) > parse_iso(resp'.start)) )
        => ( resp'.kind = "error" /\ EVENTS' = EVENTS ) ]_vars

\* C7: every stored event ends strictly after it starts (stated of the
\* events whose two timestamps are readable).
C7_StoredEndAfterStart ==
    \A i \in 1..Len(EVENTS) :
        ( Parses(EVENTS[i].start) /\ Parses(EVENTS[i].end) )
        => parse_iso(EVENTS[i].end) > parse_iso(EVENTS[i].start)

\* C8: the stored events have pairwise distinct ids.
C8_IdsDistinct ==
    \A i, j \in 1..Len(EVENTS) : i # j => EVENTS[i].id # EVENTS[j].id

\* C9: get_events_for_day and find_free_slot for a well-formed day return
\* a result, never an error, and get_events_for_day returns the empty
\* sequence for a day on which no event starts.
C9_QueriesNeverFail ==
    ( /\ resp.op \in {"get_events_for_day", "find_free_slot"}
      /\ DayParses(resp.day) )
    => /\ resp.kind = "result"
       /\ ( /\ resp.op = "get_events_for_day"
            /\ \A i \in 1..Len(EVENTS) :
                  Parses(EVENTS[i].start)
                  => DateOf(parse_iso(EVENTS[i].start)) # resp.day.d )
          => resp.events = <<>>

\* the start of a stored event lies in [midnight(day), midnight(day) + 24h)
StartsOn(e, day) ==
    /\ At(day, 0, 0) <= parse_iso(e.start)
    /\ parse_iso(e.start) < At(day + 1, 0, 0)

\* C10: what get_events_for_day(day) returns is exactly the stored events
\* whose start t has midnight(day) <= t < midnight(day) + 24h: each of them
\* once, and no event that starts before that midnight or at or after the
\* next one.
C10_EventsForDayExact ==
    ( resp.op = "get_events_for_day" /\ resp.kind = "result" )
    => LET on == { i \in 1..Len(EVENTS) : StartsOn(EVENTS[i], resp.day.d) }
       IN  /\ Len(resp.events) = Cardinality(on)
           /\ \A i \in on : \E j \in 1..Len(resp.events) :
                 resp.events[j] = EVENTS[i]
           /\ \A j \in 1..Len(resp.events) :
                 /\ StartsOn(resp.events[j], resp.day.d)
                 /\ \E i \in on : EVENTS[i] = resp.events[j]

\* C10's case: the seeded day was asked for while the store held an event
\* starting exactly at the next midnight, and the two seeded events came back
C10_Witness ==
    /\ resp.op = "get_events_for_day" /\ resp.kind = "result"
    /\ resp.day = DayStr(SeedDay)
    /\ \E i \in 1..Len(EVENTS) :
          EVENTS[i].start = TStr(At(SeedDay + 1, 0, 0))
    /\ Len(resp.events) = 2

\* C1: book_and_confirm requests for one day and one duration d > 0 are
\* served one at a time, each on the store the one before left: while the
\* day has room for K > 0 more slots of d minutes inside the working window
\* a request inserts exactly one event, of d minutes, inside the window and
\* overlapping no event of the day, after which the day has room for K - 1;
\* when K = 0 it fails with 404 and inserts nothing.  So N >= K requests
\* end with exactly K events inserted and N - K failures.
C1_BookingAtomic ==
    [][ ( /\ resp'.op = "book_and_confirm" /\ resp'.code \in {200, 404}
          /\ resp'.dur > 0 )
        => LET day == resp'.day.d
               d == resp'.dur
               K == Capacity(EVENTS, day, d)
           IN  /\ K > 0 =>
                    /\ resp'.code = 200
                    /\ EVENTS' = Append(EVENTS, resp'.event)
                    /\ resp'.event.start.t \in ValidStarts(EVENTS, day, d)
                    /\ resp'.event.end.t = resp'.event.start.t + d * Minute
                    /\ Capacity(EVENTS', day, d) = K - 1
               /\ K = 0 => ( resp'.code = 404 /\ EVENTS' = EVENTS ) ]_vars

\* the events the finished client flows created, with the flow's day
ClientBooked ==
    { c \in Clients : cpc[c] = "done" /\ cev[c] # NoEvent }

\* C2: two bookings of the same day never end with overlapping events: not
\* two client flows (find_free_slot, then create_event), and not a client
\* flow and a book_and_confirm request.
C2_ClientBookingAtomic ==
    /\ \A c1, c2 \in ClientBooked :
          ( c1 # c2 /\ creq[c1].day = creq[c2].day )
          => ~Overlaps(cev[c1].start.t, cev[c1].end.t,
                       cev[c2].start.t, cev[c2].end.t)
    /\ \A c \in ClientBooked : \A i \in 1..Len(EVENTS) :
          ( /\ EVENTS[i].created_by = "ui"
            /\ DateOf(EVENTS[i].start.t) = creq[c].day.d )
          => ~Overlaps(cev[c].start.t, cev[c].end.t,
                       EVENTS[i].start.t, EVENTS[i].end.t)

\* the last request inserted an event and answered with it
Inserted ==
    resp.op \in {"create_event", "book_and_confirm"} /\ resp.kind = "result"

\* C11: a request that is no insert (list_events, get_events_for_day,
\* find_free_slot, or any request that fails) leaves the store as it was,
\* so get_events_for_day answers every day after it as it did before it.
C11_EventsForDayIdempotent ==
    [][ ~Inserted'
        => /\ EVENTS' = EVENTS
           /\ \A day \in QueryDays :
                 get_events_for_day(EVENTS', DayStr(day)).resp
                   = get_events_for_day(EVENTS, DayStr(day)).resp ]_vars

\* C12: when no interval of d > 0 minutes fits in the working window of
\* the day, book_and_confirm answers 404 and leaves the store as it was,
\* and find_free_slot answers with the result null, not with an error.
C12_NoSlotIsNullAnd404 ==
    [][ ( /\ resp'.op \in {"find_free_slot", "book_and_confirm"}
          /\ \/ resp'.op = "find_free_slot" /\ resp'.kind = "result"
             \/ resp'.op = "book_and_confirm" /\ resp'.code \in {200, 404}
          /\ resp'.dur > 0
          /\ ValidStarts(EVENTS, resp'.day.d, resp'.dur) = {} )
        => /\ resp'.op = "find_free_slot"
                => ( resp'.kind = "result" /\ resp'.slot = NullSlot )
           /\ resp'.op = "book_and_confirm"
                => ( resp'.code = 404 /\ EVENTS' = EVENTS ) ]_vars

\* the length of the working window in minutes
WorkMinutes == (WorkEndHour - WorkStartHour) * 60

\* no stored event starts on `day`
EmptyDay(store, day) ==
    \A i \in 1..Len(store) :
        Parses(store[i].start) /\ DateOf(parse_iso(store[i].start)) # day

\* C13: on a day on which no stored event starts, find_free_slot for
\* d > 0 minutes returns the slot [09:00, 09:00 + d) when d <= 480 (the
\* length of the working window) and null when d > 480.
C13_EmptyDaySlot ==
    ( /\ resp.op = "find_free_slot" /\ DayParses(resp.day) /\ resp.dur > 0
      /\ EmptyDay(EVENTS, resp.day.d) )
    => /\ resp.kind = "result"
       /\ resp.dur <= WorkMinutes
            => resp.slot = [kind |-> "slot",
                            start |-> TStr(WorkStart(resp.day.d)),
                            end |-> TStr(WorkStart(resp.day.d)
                                           + resp.dur * Minute)]
       /\ resp.dur > WorkMinutes => resp.slot = NullSlot

\* C13's case: eight hours were asked for on the day after the seeded one
\* while the only event reaching into that day started the evening before,
\* and the whole working window came back
C13_Witness ==
    /\ resp.op = "find_free_slot" /\ resp.day = DayStr(SeedDay + 1)
    /\ resp.dur = WorkMinutes
    /\ EmptyDay(EVENTS, SeedDay + 1)
    /\ \E i \in 1..Len(EVENTS) :
          parse_iso(EVENTS[i].end) > WorkStart(SeedDay + 1)
    /\ resp.slot.kind = "slot"
    /\ resp.slot.end = TStr(WorkEnd(SeedDay + 1))

\* s is the beginning of t
IsPrefix(s, t) == Len(s) <= Len(t) /\ SubSeq(t, 1, Len(s)) = s

\* C14: every request leaves the stored events, with all their fields, as
\* the beginning of the store after it, and the store grows only by a
\* create_event or a book_and_confirm that succeeds, by exactly one event.
C14_AppendOnly ==
    [][ /\ IsPrefix(EVENTS, EVENTS')
        /\ EVENTS' # EVENTS
             => ( Inserted' /\ Len(EVENTS') = Len(EVENTS) + 1 ) ]_vars

\* C15: a book_and_confirm request that found a slot and inserted the
\* event returns that event to the caller, whatever the confirmation
\* generator did: the event is never stored while the caller gets a
\* failure.
C15_BookingIgnoresGenerator ==
    [][ ( resp'.op = "book_and_confirm" /\ EVENTS' # EVENTS )
        => /\ resp'.kind = "result"
           /\ resp'.event = EVENTS'[Len(EVENTS')] ]_vars

\* the places of `what` in the trace of the last step
Places(what) == { k \in 1..Len(resp.trace) : resp.trace[k] = what }

\* C16: in book_and_confirm and in the client's booking, llm.generate is
\* called only after the new event has been appended to the store, never
\* between the slot search and the append, and not at all in a step that
\* appends nothing (no slot found, or the insert refused).
C16_GenerateAfterAppend ==
    [][ /\ \A k \in Places("generate")' :
              \E j \in Places("append")' : j < k
        /\ EVENTS' = EVENTS => Places("generate")' = {} ]_vars

\* C16's case: a book_and_confirm request appended its event and then
\* asked for the confirmation, after a client booking had done the same
C16_Witness ==
    /\ resp.op = "book_and_confirm" /\ resp.code = 200
    /\ resp.trace = <<"append", "generate">>
    /\ EVENTS[Len(EVENTS)] = resp.event
    /\ \E c \in Clients : cpc[c] = "done" /\ cev[c] # NoEvent

\* the store without its i-th event
Without(store, i) ==
    SubSeq(store, 1, i - 1) \o SubSeq(store, i + 1, Len(store))

\* the stored events that do not start on `day`
StartElsewhere(store, day) ==
    { i \in 1..Len(store) :
        Parses(store[i].start) /\ DateOf(parse_iso(store[i].start)) # day }

\* C17: find_free_slot and book_and_confirm for day D look at the events
\* whose start has the date D only: the answer is the one the request gets
\* on the store without any one event that starts on another day, an event
\* that starts on D-1 and ends inside D's working window included.
C17_OtherDaysIgnored ==
    [][ ( /\ resp'.op \in {"find_free_slot", "book_and_confirm"}
          /\ DayParses(resp'.day) )
        => \A i \in StartElsewhere(EVENTS, resp'.day.d) :
              /\ resp'.op = "find_free_slot"
                   => find_free_slot(Without(EVENTS, i), resp'.day,
                                     resp'.dur).resp = resp'
              /\ resp'.op = "book_and_confirm"
                   => \E newid \in IdPool, llm \in LlmOutcomes :
                         book_and_confirm(Without(EVENTS, i), resp'.day,
                                          resp'.dur, resp'.title, <<>>,
                                          newid, llm).resp = resp' ]_vars

\* C17's case: an event from 23:00 of the seeded day to 10:00 of the day
\* after is stored, and an hour asked for on the day after came back as
\* 09:00-10:00, inside that event
C17_Witness ==
    /\ resp.op = "find_free_slot" /\ resp.day = DayStr(SeedDay + 1)
    /\ resp.dur = 60
    /\ \E i \in 1..Len(EVENTS) :
          /\ EVENTS[i].start = TStr(At(SeedDay, 23, 0))
          /\ EVENTS[i].end = TStr(At(SeedDay + 1, 10, 0))
    /\ resp.slot = [kind |-> "slot", start |-> TStr(At(SeedDay + 1, 9, 0)),
                    end |-> TStr(At(SeedDay + 1, 10, 0))]

\* C18: book_and_confirm searches the slot as find_free_slot does: on
\* every store, day and duration it appends an event with the start and
\* the end of the slot find_free_slot returns on that store, it answers
\* 404 exactly when find_free_slot returns null, and it fails without an
\* insert when find_free_slot fails.
C18_SameSlotSearch ==
    [][ ( resp'.op = "book_and_confirm" /\ DayParses(resp'.day) )
        => LET f == find_free_slot(EVENTS, resp'.day, resp'.dur).resp
           IN  /\ ( f.kind = "result" /\ f.slot.kind = "slot" )
                    => /\ Len(EVENTS') = Len(EVENTS) + 1
                       /\ IsPrefix(EVENTS, EVENTS')
                       /\ EVENTS'[Len(EVENTS')].start = f.slot.start
                       /\ EVENTS'[Len(EVENTS')].end = f.slot.end
               /\ resp'.code = 404
                    <=> ( f.kind = "result" /\ f.slot.kind = "null" )
               /\ f.kind = "error"
                    => ( resp'.code = 500 /\ EVENTS' = EVENTS ) ]_vars

\* C18's case: nine hours were booked on the day after the seeded one,
\* 09:00-18:00, the slot find_free_slot returns on that store
C18_Witness ==
    /\ resp.op = "book_and_confirm" /\ resp.code = 200
    /\ resp.day = DayStr(SeedDay + 1) /\ resp.dur = 540
    /\ resp.event.start = TStr(At(SeedDay + 1, 9, 0))
    /\ resp.event.end = TStr(At(SeedDay + 1, 18, 0))
    /\ EVENTS[Len(EVENTS)] = resp.event
    /\ find_free_slot(Served, resp.day, resp.dur).resp.slot = resp.slot

\* C19: the event a book_and_confirm request for day D appends starts on
\* day D, so for every other day get_events_for_day and find_free_slot
\* (for every duration) answer after the booking as they did before it.
C19_DayIsolation ==
    [][ ( resp'.op = "book_and_confirm" /\ EVENTS' # EVENTS )
        => /\ DateOf(parse_iso(EVENTS'[Len(EVENTS')].start)) = resp'.day.d
           /\ \A day \in QueryDays \ {resp'.day.d} :
                 /\ get_events_for_day(EVENTS', DayStr(day)).resp
                      = get_events_for_day(EVENTS, DayStr(day)).resp
                 /\ \A d \in SearchDurations :
                       find_free_slot(EVENTS', DayStr(day), d).resp
                         = find_free_slot(EVENTS, DayStr(day), d).resp ]_vars

\* the stores that hold the events of `store` in another order
Reordered(store) ==
    { [i \in 1..Len(store) |-> store[p[i]]] :
        p \in Permutations(1..Len(store)) }

\* C20: what find_free_slot returns for a day and a duration does not
\* depend on the order in which the stored events were inserted, events
\* with equal starts and different ends included: every store holding the
\* same events in another order gives the same answer, and so does the
\* call repeated on the unchanged store.
C20_OrderIndependent ==
    resp.op = "find_free_slot"
    => \A store \in Reordered(EVENTS) :
          find_free_slot(store, resp.day, resp.dur).resp = resp

\* C20's case: two events that start at 09:00 of the day after the seeded
\* one, the one ending at 12:00 stored before the one ending at 10:00, and
\* an hour asked for on that day came back as 12:00-13:00
C20_Witness ==
    /\ resp.op = "find_free_slot" /\ resp.day = DayStr(SeedDay + 1)
    /\ resp.dur = 60
    /\ \E i, j \in 1..Len(EVENTS) :
          /\ i < j
          /\ EVENTS[i].start = TStr(At(SeedDay + 1, 9, 0))
          /\ EVENTS[j].start = TStr(At(SeedDay + 1, 9, 0))
          /\ EVENTS[i].end = TStr(At(SeedDay + 1, 12, 0))
          /\ EVENTS[j].end = TStr(At(SeedDay + 1, 10, 0))
    /\ resp.slot.start = TStr(At(SeedDay + 1, 12, 0))

====
